---- MODULE Spec2Model ----
(***************************************************************************)
(* Clique notebook (community/aqua/optimization/clique.ipynb): the         *)
(* brute-force search of cell 3 and the Part I chain                       *)
(* build -> solve -> sample_most_likely -> get_graph_solution ->           *)
(* satisfy_or_not of cell 4.  The functions of the `clique` translator      *)
(* module are called by the notebook but not defined in it; they are       *)
(* modelled from their specification (sections 4.2 - 4.4).                  *)
(***************************************************************************)
EXTENDS Integers, Sequences, FiniteSets, TLC

VARIABLES
    num_nodes,   \* cell 2: number of nodes of the graph
    w,           \* cell 2: adjacency matrix, a sequence of rows
    K,           \* cell 2: requested clique size
    pc,          \* position in the notebook
    L,           \* brute_force: length of the bitstring
    max,         \* brute_force: 2**L
    i,           \* brute_force: loop index (-1 before the first iteration)
    cur,         \* brute_force: candidate under test
    cur_v,       \* brute_force: result of satisfy_or_not on cur
    has_sol,     \* brute_force: flag
    tested,      \* history: the indices handed to satisfy_or_not, in order
    sol,         \* cell 3: vector returned by brute_force
    out3,        \* cell 3: what the cell printed
    penalty,     \* cell 4: penalty coefficients of the energy model
    qubit_op,    \* cell 4: energy of every basis state (the diagonal operator)
    eigvec,      \* cell 4: result['eigvecs'][0], the solver's amplitudes
    exact,       \* history: the solver's output sits on a minimum of the energy
    x,           \* cell 4: output of sample_most_likely (or a raw solver vector)
    ising_sol,   \* cell 4: output of get_graph_solution
    member,      \* history: the membership vector that was encoded for the decoder
    out4         \* cell 4: what the cell printed

vars == <<num_nodes, w, K, pc, L, max, i, cur, cur_v, has_sol, tested, sol, out3,
          penalty, qubit_op, eigvec, exact, x, ising_sol, member, out4>>

bfVars == <<L, max, i, cur, cur_v, has_sol, tested, sol, out3>>
p1Vars == <<penalty, qubit_op, eigvec, exact, x, ising_sol, member, out4>>
inVars == <<num_nodes, w, K>>

----------------------------------------------------------------------------
(* Bounds of the model *)

MaxN == 3          \* graphs of 1..MaxN nodes are enumerated exhaustively
MaxPenalty == 2    \* penalty coefficients A, B range over 1..MaxPenalty
MaxQubits == 2     \* amplitude vectors of 2^1 .. 2^MaxQubits entries
MaxAmp == 1        \* amplitudes range over -MaxAmp..MaxAmp

----------------------------------------------------------------------------
(* Small helpers *)

RECURSIVE SumSeq(_)
SumSeq(s) == IF s = <<>> THEN 0 ELSE s[1] + SumSeq(Tail(s))

Pow2(n) == 2 ^ n

Nodes(n) == 1 .. n

Pairs(n) == {e \in SUBSET Nodes(n) : Cardinality(e) = 2}

----------------------------------------------------------------------------
(* Cell 2: the graph under test *)

\* The recorded output of cell 2 (np.random.seed(100), num_nodes = 5).
DemoGraph ==
    << << 0,  4,  5,  3, -5>>,
       << 4,  0,  7,  0,  6>>,
       << 5,  7,  0, -4,  0>>,
       << 3,  0, -4,  0,  8>>,
       <<-5,  6,  0,  8,  0>> >>

DemoK == 3

\* A symmetric matrix with zero diagonal: a pair is an edge (nonzero weight)
\* or not (0).
GraphOf(n, E) ==
    [a \in Nodes(n) |-> [b \in Nodes(n) |-> IF {a, b} \in E THEN 1 ELSE 0]]

random_graph ==
    UNION {{GraphOf(n, E) : E \in SUBSET Pairs(n)} : n \in 1 .. MaxN} \cup {DemoGraph}

----------------------------------------------------------------------------
(* Cell 3: brute_force *)

\* np.binary_repr(n, width) for n >= 0: the binary digits of n as characters,
\* most significant first, left-padded with '0' to at least `width` characters.
RECURSIVE bin(_)
bin(n) == IF n < 2 THEN << IF n = 0 THEN "0" ELSE "1" >>
          ELSE Append(bin(n \div 2), IF n % 2 = 0 THEN "0" ELSE "1")

binary_repr(n, width) ==
    LET b == bin(n)
    IN  IF Len(b) >= width THEN b
        ELSE [k \in 1 .. (width - Len(b)) |-> "0"] \o b

\* int(digit)
int(digit) == IF digit = "1" THEN 1 ELSE 0

\* mutant: the digits read least significant first
bitfield_lsb(n, len) ==
    LET result == binary_repr(n, len)
    IN  [k \in 1 .. Len(result) |-> int(result[Len(result) + 1 - k])]

\* mutant: np.binary_repr(n) without the width
bitfield_nowidth(n, len) ==
    LET result == binary_repr(n, 0)
    IN  [k \in 1 .. Len(result) |-> int(result[k])]

bitfield(n, len) ==
    LET result == binary_repr(n, len)
    IN  [k \in 1 .. Len(result) |-> int(result[k])]

\* mutant: the last candidate is left out
SearchSpace_short(len) == Pow2(len) - 1

\* max = 2**L
SearchSpace(len) == Pow2(len)

\* clique.satisfy_or_not(x, w, K): (a) exactly K entries equal to 1,
\* (b) every two selected nodes are joined by an edge (nonzero weight).
satisfy_or_not(v, g, k) ==
    /\ SumSeq([a \in 1 .. Len(v) |-> IF v[a] = 1 THEN 1 ELSE 0]) = k
    /\ \A a \in 1 .. Len(v) : \A b \in 1 .. Len(v) :
          (a # b /\ v[a] = 1 /\ v[b] = 1) => g[a][b] # 0

\* mutant: the bitstring is one short
Enter_shortL ==
    /\ pc = "cell3"
    /\ L' = num_nodes - 1
    /\ max' = SearchSpace(num_nodes - 1)
    /\ has_sol' = FALSE
    /\ pc' = "for"
    /\ UNCHANGED <<i, cur, cur_v, tested, sol, out3>>
    /\ UNCHANGED inVars /\ UNCHANGED p1Vars

\* mutant: the flag starts out set
Enter_flagSet ==
    /\ pc = "cell3"
    /\ L' = num_nodes
    /\ max' = SearchSpace(num_nodes)
    /\ has_sol' = TRUE
    /\ pc' = "for"
    /\ UNCHANGED <<i, cur, cur_v, tested, sol, out3>>
    /\ UNCHANGED inVars /\ UNCHANGED p1Vars

\* def brute_force(): ... L = num_nodes; max = 2**L; has_sol = False
Enter ==
    /\ pc = "cell3"
    /\ L' = num_nodes
    /\ max' = SearchSpace(num_nodes)
    /\ has_sol' = FALSE
    /\ pc' = "for"
    /\ UNCHANGED <<i, cur, cur_v, tested, sol, out3>>
    /\ UNCHANGED inVars /\ UNCHANGED p1Vars

\* mutant: the candidate is tested against the wrong size
ForIter_wrongK ==
    /\ pc = "for"
    /\ i + 1 < max
    /\ i' = i + 1
    /\ cur' = bitfield(i', L)
    /\ cur_v' = satisfy_or_not(cur', w, K + 1)
    /\ tested' = Append(tested, i')
    /\ IF cur_v'
         THEN has_sol' = TRUE /\ pc' = "return"
         ELSE has_sol' = has_sol /\ pc' = "for"
    /\ UNCHANGED <<L, max, sol, out3>>
    /\ UNCHANGED inVars /\ UNCHANGED p1Vars

\* mutant: no break after a success
ForIter_noBreak ==
    /\ pc = "for"
    /\ i + 1 < max
    /\ i' = i + 1
    /\ cur' = bitfield(i', L)
    /\ cur_v' = satisfy_or_not(cur', w, K)
    /\ tested' = Append(tested, i')
    /\ has_sol' = (has_sol \/ cur_v')
    /\ pc' = "for"
    /\ UNCHANGED <<L, max, sol, out3>>
    /\ UNCHANGED inVars /\ UNCHANGED p1Vars

\* one iteration of `for i in range(max)`: decode, test, break on success
ForIter ==
    /\ pc = "for"
    /\ i + 1 < max
    /\ i' = i + 1
    /\ cur' = bitfield(i', L)
    /\ cur_v' = satisfy_or_not(cur', w, K)
    /\ tested' = Append(tested, i')
    /\ IF cur_v'
         THEN has_sol' = TRUE /\ pc' = "return"
         ELSE has_sol' = has_sol /\ pc' = "for"
    /\ UNCHANGED <<L, max, sol, out3>>
    /\ UNCHANGED inVars /\ UNCHANGED p1Vars

\* range(max) is exhausted: the loop ends without a break
ForEnd ==
    /\ pc = "for"
    /\ ~(i + 1 < max)
    /\ pc' = "return"
    /\ UNCHANGED bfVars
    /\ UNCHANGED inVars /\ UNCHANGED p1Vars

\* return has_sol, cur; has_sol, sol = brute_force(); print
Return ==
    /\ pc = "return"
    /\ sol' = cur
    /\ out3' = IF has_sol THEN "solution is" ELSE "no solution found"
    /\ pc' = "cell4"
    /\ UNCHANGED <<L, max, i, cur, cur_v, has_sol, tested>>
    /\ UNCHANGED inVars /\ UNCHANGED p1Vars

----------------------------------------------------------------------------
(* The clique translator: energy model and decoders (sections 4.2, 4.4) *)

\* The index <-> assignment convention: position 1 of the vector is the most
\* significant bit of the index.
BitsOf(k, n) == [p \in 1 .. n |-> (k \div Pow2(n - p)) % 2]

\* s_i = 2 x_i - 1
SpinOf(v) == [p \in 1 .. Len(v) |-> 2 * v[p] - 1]

\* mutant: the size target loses its factor of two
Energy_target(s, g, k, A, B) ==
    LET n == Len(g)
        d == SumSeq(s) - (k - n)
        nonEdge == [q \in 1 .. n * n |->
                      LET a == ((q - 1) \div n) + 1
                          b == ((q - 1) % n) + 1
                      IN  IF a # b /\ g[a][b] = 0
                            THEN (1 + s[a]) * (1 + s[b]) ELSE 0]
    IN  A * d * d + B * SumSeq(nonEdge)

\* E(s) = A (sum_i s_i - (2K - N))^2
\*      + B sum_{i # j, (i,j) not an edge} (1 + s_i)(1 + s_j)
Energy(s, g, k, A, B) ==
    LET n == Len(g)
        d == SumSeq(s) - (2 * k - n)
        nonEdge == [q \in 1 .. n * n |->
                      LET a == ((q - 1) \div n) + 1
                          b == ((q - 1) % n) + 1
                      IN  IF a # b /\ g[a][b] = 0
                            THEN (1 + s[a]) * (1 + s[b]) ELSE 0]
    IN  A * d * d + B * SumSeq(nonEdge)

\* clique.get_clique_qubitops(w, K): the energy of every basis state
get_clique_qubitops(g, k, A, B) ==
    [idx \in 1 .. Pow2(Len(g)) |->
        Energy(SpinOf(BitsOf(idx - 1, Len(g))), g, k, A, B)]

\* index (0-based) of the largest squared magnitude, the first one on a tie
RECURSIVE argmax(_, _, _)
argmax(v, k, best) ==
    IF k > Len(v) THEN best - 1
    ELSE IF v[k] * v[k] > v[best] * v[best]
           THEN argmax(v, k + 1, k)
           ELSE argmax(v, k + 1, best)

\* clique.sample_most_likely(n, state_vector)
sample_most_likely(n, state_vector) == BitsOf(argmax(state_vector, 1, 1), n)

\* mutant: the complement of the input
get_graph_solution_flip(v) == [p \in 1 .. Len(v) |-> 1 - v[p]]

\* clique.get_graph_solution(x): bits, spins or relaxed values to {0,1}
get_graph_solution(v) == [p \in 1 .. Len(v) |-> IF 2 * v[p] > 1 THEN 1 ELSE 0]

MinOf(s) == CHOOSE m \in {s[k] : k \in 1 .. Len(s)} :
                \A k \in 1 .. Len(s) : m <= s[k]

----------------------------------------------------------------------------
(* Cell 4: Part I *)

\* qubit_op, offset = clique.get_clique_qubitops(w, K)
Build ==
    /\ pc = "cell4"
    /\ IF K < 1 \/ K > Len(w)
         THEN /\ out4' = "InvalidSpec"
              /\ pc' = "failed"
              /\ UNCHANGED <<penalty, qubit_op>>
         ELSE /\ \E A \in 1 .. MaxPenalty, B \in 1 .. MaxPenalty :
                    /\ penalty' = <<A, B>>
                    /\ qubit_op' = get_clique_qubitops(w, K, A, B)
              /\ pc' = "solve"
              /\ out4' = out4
    /\ UNCHANGED <<eigvec, exact, x, ising_sol, member>>
    /\ UNCHANGED inVars /\ UNCHANGED bfVars

\* result = run_algorithm(params, algo_input): the external solver returns a
\* distribution concentrated on one basis state, not necessarily a minimum
Solve ==
    /\ pc = "solve"
    /\ \E m \in 1 .. Len(qubit_op), amp \in {-1, 1} :
          /\ eigvec' = [k \in 1 .. Len(qubit_op) |-> IF k = m THEN amp ELSE 0]
          /\ exact' = (qubit_op[m] = MinOf(qubit_op))
    /\ pc' = "sample"
    /\ UNCHANGED <<penalty, qubit_op, x, ising_sol, member, out4>>
    /\ UNCHANGED inVars /\ UNCHANGED bfVars

\* x = clique.sample_most_likely(len(w), result['eigvecs'][0])
Sample ==
    /\ pc = "sample"
    /\ IF Len(eigvec) # Pow2(Len(w))
         THEN /\ out4' = "DecodeError"
              /\ pc' = "failed"
              /\ x' = x
         ELSE /\ x' = sample_most_likely(Len(w), eigvec)
              /\ pc' = "decode"
              /\ out4' = out4
    /\ UNCHANGED <<penalty, qubit_op, eigvec, exact, ising_sol, member>>
    /\ UNCHANGED inVars /\ UNCHANGED bfVars

\* ising_sol = clique.get_graph_solution(x)
GraphSolution ==
    /\ pc = "decode"
    /\ ising_sol' = get_graph_solution(x)
    /\ pc' = "verify"
    /\ UNCHANGED <<penalty, qubit_op, eigvec, exact, x, member, out4>>
    /\ UNCHANGED inVars /\ UNCHANGED bfVars

\* if clique.satisfy_or_not(ising_sol, w, K): print(...) else: print(...)
Verify ==
    /\ pc = "verify"
    /\ out4' = IF satisfy_or_not(ising_sol, w, K)
                 THEN "solution is" ELSE "no solution found"
    /\ pc' = "done"
    /\ UNCHANGED <<penalty, qubit_op, eigvec, exact, x, ising_sol, member>>
    /\ UNCHANGED inVars /\ UNCHANGED bfVars

----------------------------------------------------------------------------
(* Specifications *)

BfInit ==
    /\ L = 0 /\ max = 0 /\ i = -1 /\ cur = <<>> /\ cur_v = FALSE
    /\ has_sol = FALSE /\ tested = <<>> /\ sol = <<>> /\ out3 = ""

P1Init ==
    /\ penalty = <<>> /\ qubit_op = <<>> /\ eigvec = <<>> /\ exact = FALSE
    /\ x = <<>> /\ ising_sol = <<>> /\ member = <<>> /\ out4 = ""

\* The notebook, run from cell 2 on a graph and a target size.
Init ==
    /\ w \in random_graph
    /\ num_nodes = Len(w)
    /\ K \in 0 .. num_nodes + 1
    /\ pc = "cell3"
    /\ BfInit /\ P1Init

Next == Enter \/ ForIter \/ ForEnd \/ Return
        \/ Build \/ Solve \/ Sample \/ GraphSolution \/ Verify

Spec == Init /\ [][Next]_vars

\* All amplitude vectors of length len over -MaxAmp .. MaxAmp
Amplitudes(len) == [1 .. len -> (0 - MaxAmp) .. MaxAmp]

\* The decoders on their own: sample_most_likely on every amplitude vector,
\* get_graph_solution on the spin encoding of every membership vector.
InitDecoder ==
    /\ BfInit
    /\ penalty = <<>> /\ qubit_op = <<>> /\ exact = FALSE
    /\ ising_sol = <<>> /\ out4 = ""
    /\ \/ /\ num_nodes \in 1 .. MaxQubits
          /\ w = GraphOf(num_nodes, {})
          /\ K = 1
          /\ eigvec \in Amplitudes(Pow2(num_nodes))
                         \cup Amplitudes(Pow2(num_nodes) - 1)
          /\ x = <<>> /\ member = <<>>
          /\ pc = "sample"
       \/ /\ w \in random_graph
          /\ num_nodes = Len(w)
          /\ K \in 1 .. num_nodes
          /\ member \in [1 .. num_nodes -> {0, 1}]
          /\ x = SpinOf(member)
          /\ eigvec = <<>>
          /\ pc = "decode"

NextDecoder == Sample \/ GraphSolution \/ Verify

SpecDecoder == InitDecoder /\ [][NextDecoder]_vars

----------------------------------------------------------------------------
(* Vocabulary of the properties *)

\* the nodes a membership vector selects
Selected(v) == {a \in 1 .. Len(v) : v[a] = 1}

\* the nodes of S are pairwise adjacent in g
PairwiseAdjacent(S, g) == \A a \in S : \A b \in S \ {a} : g[a][b] # 0

\* v selects exactly k pairwise adjacent nodes of g
IsCliqueOfSize(v, g, k) ==
    /\ Len(v) = Len(g)
    /\ \A a \in 1 .. Len(v) : v[a] \in {0, 1}
    /\ Cardinality(Selected(v)) = k
    /\ PairwiseAdjacent(Selected(v), g)

\* g contains k pairwise adjacent nodes
HasClique(g, k) ==
    \E S \in SUBSET Nodes(Len(g)) : Cardinality(S) = k /\ PairwiseAdjacent(S, g)

\* index j written on n bits, the highest bit at position 1
MsbFirst(j, n) == [p \in 1 .. n |-> (j \div (2 ^ (n - p))) % 2]

ValidK == K >= 1 /\ K <= num_nodes

AllOnes(n) == [p \in 1 .. n |-> 1]

FirstIndices(n) == [k \in 1 .. n |-> k - 1]

\* the indices of the candidates satisfy_or_not accepts
FeasibleIndices == {j \in 0 .. (2 ^ num_nodes) - 1 :
                       satisfy_or_not(MsbFirst(j, num_nodes), w, K)}

\* cell 3 has just finished: brute_force has returned and the result is printed
BruteForceDone == pc = "cell4"

\* cell 3 is running or has just finished
InBruteForce == pc \in {"cell3", "for", "return", "cell4"}

\* the energy model has just been built
ModelBuilt == pc = "solve"

----------------------------------------------------------------------------
(* Properties *)

\* C1: soundness of the brute-force search. For 1 <= K <= N, a vector that
\* cell 3 reports as a solution passes satisfy_or_not and selects exactly K
\* nodes, which are pairwise adjacent.
C1_Soundness ==
    (BruteForceDone /\ out3 = "solution is" /\ ValidK) =>
        /\ satisfy_or_not(sol, w, K)
        /\ SumSeq(sol) = K
        /\ IsCliqueOfSize(sol, w, K)

C1_Witness ==
    /\ BruteForceDone /\ out3 = "solution is" /\ ValidK
    /\ K >= 2 /\ K < num_nodes

\* C2: completeness of the brute-force search. For 1 <= K <= N, cell 3
\* prints "no solution found" exactly when the graph has no K pairwise
\* adjacent nodes, and then all 2^N candidates were tested and none passed.
C2_Completeness ==
    (BruteForceDone /\ ValidK) =>
        /\ (out3 = "no solution found") <=> ~HasClique(w, K)
        /\ (out3 = "solution is") <=> HasClique(w, K)
        /\ (out3 = "no solution found") =>
              /\ tested = FirstIndices(2 ^ num_nodes)
              /\ FeasibleIndices = {}

C2_Witness ==
    /\ BruteForceDone /\ out3 = "no solution found" /\ ValidK
    /\ K >= 2 /\ K < num_nodes
    /\ \E a \in Nodes(num_nodes) : \E b \in Nodes(num_nodes) : w[a][b] # 0

\* C3: enumeration order. The indices are tested in the order 0, 1, 2, ...,
\* each once; the candidate for index i is i on N bits, highest bit first;
\* the search stops at the first feasible candidate, so the reported vector
\* is the feasible one of smallest index and nothing after it was tested.
C3_Order ==
    InBruteForce =>
    /\ tested = FirstIndices(Len(tested))
    /\ Len(tested) <= 2 ^ num_nodes
    /\ i = Len(tested) - 1
    /\ i >= 0 => cur = MsbFirst(i, num_nodes)
    /\ has_sol =>
          /\ i \in FeasibleIndices
          /\ \A j \in FeasibleIndices : i <= j
    /\ ~has_sol => \A j \in FeasibleIndices : j > i
    /\ out3 = "solution is" =>
          /\ sol = MsbFirst(i, num_nodes)
          /\ tested[Len(tested)] \in FeasibleIndices
          /\ \A j \in FeasibleIndices : tested[Len(tested)] <= j

C3_Witness ==
    /\ BruteForceDone /\ out3 = "solution is"
    /\ i >= 3
    /\ \E j \in FeasibleIndices : j > i
    /\ Len(tested) = i + 1

\* C4: the pinned scenario. On the graph of cell 2 with K = 3 the brute
\* force reports [1,0,0,1,1]: three nodes, pairwise connected, accepted by
\* satisfy_or_not.
C4_Pinned ==
    (w = DemoGraph /\ K = DemoK /\ BruteForceDone) =>
        /\ out3 = "solution is"
        /\ sol = <<1, 0, 0, 1, 1>>
        /\ Selected(sol) = {1, 4, 5}
        /\ PairwiseAdjacent(Selected(sol), w)
        /\ satisfy_or_not(sol, w, K)

C4_Witness ==
    /\ w = DemoGraph /\ K = DemoK /\ num_nodes = 5
    /\ BruteForceDone /\ out3 = "solution is"

\* C5: the energy separates feasible from infeasible assignments. Once the
\* model is built (1 <= K <= N, A, B > 0), the energy of an assignment is 0
\* exactly when its +1 spins form a clique of size K, and at least
\* min(A, B) at every other assignment.
C5_EnergySeparates ==
    ModelBuilt =>
        \A idx \in 1 .. Len(qubit_op) :
            LET v == MsbFirst(idx - 1, num_nodes)
                lo == IF penalty[1] <= penalty[2] THEN penalty[1] ELSE penalty[2]
            IN  /\ (qubit_op[idx] = 0) <=> IsCliqueOfSize(v, w, K)
                /\ ~IsCliqueOfSize(v, w, K) => qubit_op[idx] >= lo

C5_Witness ==
    /\ ModelBuilt
    /\ penalty = <<2, 1>>
    /\ K >= 2
    /\ \E idx \in 1 .. Len(qubit_op) : qubit_op[idx] = 0
    /\ \E idx \in 1 .. Len(qubit_op) :
          /\ Cardinality(Selected(MsbFirst(idx - 1, num_nodes))) = K
          /\ qubit_op[idx] > 0

\* C6: sample_most_likely returns the index of largest squared magnitude,
\* the smallest such index on a tie, written on n bits the way brute_force
\* decodes its index; the output is a function of the input.
C6_ArgMax ==
    (eigvec # <<>> /\ pc \in {"decode", "verify", "done"}) =>
        \E m \in 0 .. Len(eigvec) - 1 :
            /\ \A k \in 0 .. Len(eigvec) - 1 :
                  eigvec[k + 1] * eigvec[k + 1] <= eigvec[m + 1] * eigvec[m + 1]
            /\ \A k \in 0 .. m - 1 :
                  eigvec[k + 1] * eigvec[k + 1] < eigvec[m + 1] * eigvec[m + 1]
            /\ x = bitfield(m, num_nodes)

C6_Witness ==
    /\ eigvec # <<>> /\ pc = "decode"
    /\ num_nodes = 2
    /\ eigvec[1] = 0 /\ eigvec[2] = 0 - 1 /\ eigvec[3] = 1
    /\ x = <<0, 1>>

\* C7: round trip. For a membership vector that is a clique of size K,
\* get_graph_solution applied to its spin encoding s = 2x - 1 returns the
\* vector itself, which then passes satisfy_or_not.
C7_RoundTrip ==
    (member # <<>> /\ pc \in {"verify", "done"} /\ IsCliqueOfSize(member, w, K)) =>
        /\ ising_sol = member
        /\ pc = "done" => out4 = "solution is"

C7_Witness ==
    /\ member # <<>> /\ pc = "done"
    /\ IsCliqueOfSize(member, w, K)
    /\ K >= 2 /\ K < num_nodes
    /\ x = SpinOf(member)
    /\ out4 = "solution is"

\* C8: the target size is validated eagerly. With K = 0 or K = N + 1, once
\* cell 3 is over it has failed with InvalidSpec without testing a candidate;
\* no vector is reported as a solution.
C8_EagerValidation ==
    (~ValidK /\ pc \notin {"cell3", "for", "return"}) =>
        /\ out3 = "InvalidSpec"
        /\ tested = <<>>

\* C9: the energy chain agrees with the brute force. When the solver's
\* distribution sits on a minimum of the energy, cell 4 prints a solution
\* exactly when cell 3 did, and the printed vector is a clique of size K.
C9_Agreement ==
    (pc = "done" /\ exact) =>
        /\ (out4 = "solution is") <=> (out3 = "solution is")
        /\ (out4 = "no solution found") <=> (out3 = "no solution found")
        /\ out4 = "solution is" => IsCliqueOfSize(ising_sol, w, K)

C9_Witness ==
    /\ pc = "done" /\ exact
    /\ w = DemoGraph /\ K = DemoK
    /\ out4 = "solution is"
    /\ ising_sol = <<1, 0, 1, 1, 0>>
    /\ sol = <<1, 0, 0, 1, 1>>

\* C10: flag and vector agree. When brute_force has returned, has_sol holds
\* exactly when the returned vector passes satisfy_or_not; when the space is
\* exhausted has_sol is false and the vector is the last candidate, all
\* ones, which does not pass.
C10_FlagMatchesVector ==
    BruteForceDone =>
        /\ has_sol <=> satisfy_or_not(sol, w, K)
        /\ has_sol <=> (out3 = "solution is")
        /\ ~has_sol =>
              /\ Len(tested) = 2 ^ num_nodes
              /\ i = (2 ^ num_nodes) - 1
              /\ sol = AllOnes(num_nodes)
              /\ ~satisfy_or_not(AllOnes(num_nodes), w, K)

C10_Witness ==
    /\ BruteForceDone /\ ~has_sol /\ ValidK
    /\ K >= 2
    /\ sol = AllOnes(num_nodes)
    /\ out3 = "no solution found"

====
